---- MODULE Spec2Model ----
(***************************************************************************)
(* A model of the DDSP synthesizer modules (ddsp/synths.py) and of the     *)
(* encoder constructors (ddsp/training/encoders.py).                       *)
(*                                                                         *)
(* One behaviour follows one object: it is constructed once and then its   *)
(* methods are invoked any number of times.                                *)
(*                                                                         *)
(* Tensors of rank 3 are nested sequences t[b][f][c].  Real numbers are    *)
(* integers in fixed point:                                                *)
(*   - amplitude-like values count ticks of 1e-7 (the threshold that       *)
(*     exp_sigmoid adds, so that one tick is the smallest scaled value);   *)
(*   - frequencies count Hz, frequency logits count whole units;           *)
(*   - a quotient is kept exactly, as the pair [num, den]; den = 0 is the  *)
(*     non-finite result of an IEEE division by zero (NaN or +-inf).       *)
(***************************************************************************)
EXTENDS Integers, Sequences, FiniteSets, TLC

VARIABLES
  self,      \* the object: its class and the attributes its constructor set
  ctor,      \* the constructor call that was made (class and arguments)
  last,      \* the method invoked last
  raw,       \* the arguments of the last get_controls / call
  controls,  \* the dict returned by the last get_controls
  signal,    \* the tensor returned by the last get_signal
  prev,      \* the tensor returned by the get_signal before, on the same controls
  err,       \* the exception the last invocation raised, "None" if it returned
  conditioning,  \* the dict handed to the last call of an encoder or decoder,
                 \* as the call left it
  seen       \* the dicts that the last call handed to compute_z or to decode,
             \* in the order of the invocations

vars == <<self, ctor, last, raw, controls, signal, prev, err, conditioning, seen>>

-----------------------------------------------------------------------------
(* Bounds of the model. *)

MaxBatch == 1        \* batch sizes 1..MaxBatch
MaxFrames == 2       \* frame counts 1..MaxFrames
MaxChannels == 2     \* sizes of the last axis 1..MaxChannels
MaxSamples == 3      \* n_samples is MaxSamples - 1 or MaxSamples

Batches == 1..MaxBatch
Frames == 1..MaxFrames
Channels == 1..MaxChannels
NSamples == {MaxSamples - 1, MaxSamples}

\* One real unit in ticks of 1e-7.
Tick(x) == x * 10000000

None == "None"

\* Raw network outputs of amplitude type, in ticks: logits for a module that
\* scales them, strictly positive amplitudes for a module that has no scale
\* function.
Logits == {Tick(0), Tick(1)}
Amplitudes(scale_fn) == IF scale_fn = None THEN {Tick(1), Tick(2)} ELSE Logits
\* Raw network outputs of frequency type: logits for a module that scales
\* them, strictly positive Hz for a module that has no scale function.
Frequencies(scale_fn) == IF scale_fn = None THEN {440, 9000} ELSE {0, 9000}
\* Raw dampings of ModalFIR, scaled when the module has an amp_scale_fn.
Dampings(scale_fn) == IF scale_fn = None THEN {1, 2} ELSE {0, 1}
\* Fundamental frequencies in Hz.
F0Values == {1000, 5000, 8000}
\* Audio samples of TensorToAudio, in ticks.
AudioValues == {Tick(0), Tick(1)}
SampleRates == {16000}

-----------------------------------------------------------------------------
(* Tensors. *)

Rows(C, V) == [1..C -> V]

\* The tensors [B, F, C] that hold row `base` everywhere but at position p,
\* where they hold row `spec`.
PatternTensor(B, F, p, base, spec) ==
  [b \in 1..B |-> [f \in 1..F |-> IF <<b, f>> = p THEN spec ELSE base]]

Positions(B, F) == (1..B) \X (1..F)

Shape(t) == <<Len(t), Len(t[1]), Len(t[1][1])>>

RECURSIVE SumTo(_, _)
SumTo(row, n) == IF n = 0 THEN 0 ELSE row[n] + SumTo(row, n - 1)

\* tf.reduce_sum over the last axis of one row.
reduce_sum(row) == SumTo(row, Len(row))

-----------------------------------------------------------------------------
(* Shapes of the tensor operations the modules call. *)

\* Numpy broadcasting of two shapes of the same rank.
BroadcastOK(s1, s2) ==
  /\ Len(s1) = Len(s2)
  /\ \A i \in DOMAIN s1 : s1[i] = s2[i] \/ s1[i] = 1 \/ s2[i] = 1

Max(a, b) == IF a >= b THEN a ELSE b

Broadcast(s1, s2) == [i \in DOMAIN s1 |-> Max(s1[i], s2[i])]

\* A shape of lower rank is aligned to the right.
RECURSIVE PadRank(_, _)
PadRank(s, n) == IF Len(s) >= n THEN s ELSE PadRank(<<1>> \o s, n)

BroadcastOKAny(s1, s2) ==
  BroadcastOK(PadRank(s1, Len(s2)), PadRank(s2, Len(s1)))

BroadcastAny(s1, s2) ==
  Broadcast(PadRank(s1, Len(s2)), PadRank(s2, Len(s1)))

\* tf.expand_dims(x, axis), axis counted from 0.
expand_dims(s, axis) == SubSeq(s, 1, axis) \o <<1>> \o SubSeq(s, axis + 1, Len(s))

\* Removal of axis `axis` (counted from 0): the shape of tf.squeeze and of
\* tf.reduce_sum without keepdims.
DropAxis(s, axis) == SubSeq(s, 1, axis) \o SubSeq(s, axis + 2, Len(s))

\* tf.squeeze(x, axis) raises unless the axis has size 1.
SqueezeOK(s, axis) == axis + 1 \in DOMAIN s /\ s[axis + 1] = 1

CeilDiv(a, b) == (a + b - 1) \div b

\* tf.nn.max_pool_with_argmax on [batch, height, width, channels] with a
\* square window k, stride k and padding 'SAME'.
max_pool_shape(s, k) == <<s[1], CeilDiv(s[2], k), CeilDiv(s[3], k), s[4]>>

\* tf.concat of two tensors of equal shape along axis 1.
concat_axis1(s1, s2) == [i \in DOMAIN s1 |-> IF i = 2 THEN s1[2] + s2[2] ELSE s1[i]]

-----------------------------------------------------------------------------
(* The primitives of ddsp.core that the modules call. *)

\* The argument of a nonlinearity in half units, from a value in ticks.
Halves(x) == (2 * x) \div 10000000

\* exp_sigmoid(x) = 2.0 * sigmoid(x) ** log(10.0) + 1e-7, in ticks, tabulated
\* at the half units -6.0, -5.5 .. 6.0 and saturated beyond: strictly positive
\* and increasing.
exp_sigmoid_table ==
  <<21, 64, 198, 618, 1919, 5907, 17884, 52741, 149316, 397757, 972229,
    2123016, 4053992, 6713563, 9722285, 12578149, 14931451, 16677859,
    17883094, 18675817, 19181391, 19497650, 19693126, 19813061, 19886316>>

exp_sigmoid(x) ==
  LET h == Halves(x)
  IN  IF h < -12 THEN 1
      ELSE IF h > 12 THEN 20000001
      ELSE exp_sigmoid_table[h + 13]

\* sigmoid(x) in thousandths at the half units -6.0 .. 6.0, saturated beyond
\* (a float32 sigmoid is exactly 1.0 for a large argument).
sigmoid_table ==
  <<2, 4, 7, 11, 18, 29, 47, 76, 119, 182, 269, 378, 500, 622, 731, 818, 881,
    924, 953, 971, 982, 989, 993, 996, 998>>

sigmoid(h) ==
  IF h < -12 THEN 0 ELSE IF h > 12 THEN 1000 ELSE sigmoid_table[h + 13]

\* frequencies_sigmoid(freqs, hz_min, hz_max): a sigmoid mapped into the range
\* [hz_min, hz_max] of Hz; the argument counts whole units.
frequencies_sigmoid(x, hz_min, hz_max) ==
  hz_min + ((hz_max - hz_min) * sigmoid(2 * x)) \div 1000

\* frequencies_sigmoid with the range it has when called with one argument.
frequencies_sigmoid_default(x) == frequencies_sigmoid(x, 8, 8000)

\* get_harmonic_frequencies(f0_hz, n_harmonics): the grid f0 * (1..n).
get_harmonic_frequencies(f0_hz, n_harmonics) ==
  [b \in DOMAIN f0_hz |-> [f \in DOMAIN f0_hz[b] |->
     [k \in 1..n_harmonics |-> k * f0_hz[b][f][1]]]]

\* remove_above_nyquist(frequency_envelopes, amplitude_envelopes, sample_rate):
\* a hard mask of every amplitude whose frequency is >= sample_rate / 2.
remove_above_nyquist(frequency_envelopes, amplitude_envelopes, sample_rate) ==
  [b \in DOMAIN amplitude_envelopes |-> [f \in DOMAIN amplitude_envelopes[b] |->
     [c \in DOMAIN amplitude_envelopes[b][f] |->
        IF 2 * frequency_envelopes[b][f][c] >= sample_rate
        THEN 0
        ELSE amplitude_envelopes[b][f][c]]]]

\* The IEEE quotient numerator / denominator, kept exactly.
Divide(numerator, denominator) == [num |-> numerator, den |-> denominator]

\* safe_divide(numerator, denominator, eps = 1e-7): a zero denominator is
\* replaced by eps, which is one tick.
safe_divide(numerator, denominator) ==
  Divide(numerator, IF denominator = 0 THEN 1 ELSE denominator)

\* exp_sigmoid and frequencies_sigmoid act elementwise on a tensor.
exp_sigmoid_all(t) ==
  [b \in DOMAIN t |-> [f \in DOMAIN t[b] |-> [c \in DOMAIN t[b][f] |->
     exp_sigmoid(t[b][f][c])]]]

frequencies_sigmoid_all(t) ==
  [b \in DOMAIN t |-> [f \in DOMAIN t[b] |-> [c \in DOMAIN t[b][f] |->
     frequencies_sigmoid_default(t[b][f][c])]]]

IsFinite(q) == q.den # 0

IsZero(q) == q.den # 0 /\ q.num = 0

\* resample(inputs [B, F, C], n_timesteps) has shape [B, n_timesteps, C].
resample_shape(s, n_timesteps) == <<s[1], n_timesteps, s[3]>>

\* oscillator_bank(frequency_envelopes [B, N, C], amplitude_envelopes [B, N, C])
\* has shape [B, N].
oscillator_bank_shape(freq_shape, amp_shape) == <<amp_shape[1], amp_shape[2]>>

\* harmonic_synthesis(frequencies [B, F, 1], ..., n_samples) has shape
\* [B, n_samples].
harmonic_synthesis_shape(freq_shape, n_samples) == <<freq_shape[1], n_samples>>

\* wavetable_synthesis(frequencies [B, F, 1], ..., n_samples) has shape
\* [B, n_samples].
wavetable_synthesis_shape(freq_shape, n_samples) == <<freq_shape[1], n_samples>>

\* frequency_filter(audio [B, N], magnitudes [B, F, K], window_size) has the
\* shape of the audio.
frequency_filter_shape(audio_shape, mag_shape) == audio_shape

\* A sample-wise function of the inputs, computed by a primitive: the value is
\* kept as the application itself.
Apply(fn, args) == [fn |-> fn, args |-> args]

-----------------------------------------------------------------------------
(* Constructors of the synthesizer modules: the attributes they set. *)

NoObject == [cls |-> None]

TensorToAudio_init == [cls |-> "TensorToAudio"]

Harmonic_init(n_samples, sample_rate, scale_fn, normalize_below_nyquist) ==
  [cls |-> "Harmonic",
   n_samples |-> n_samples,
   sample_rate |-> sample_rate,
   scale_fn |-> scale_fn,
   normalize_below_nyquist |-> normalize_below_nyquist]

FilteredNoise_init(n_samples, window_size, scale_fn, initial_bias) ==
  [cls |-> "FilteredNoise",
   n_samples |-> n_samples,
   window_size |-> window_size,
   scale_fn |-> scale_fn,
   initial_bias |-> initial_bias]

Wavetable_init(n_samples, sample_rate, scale_fn) ==
  [cls |-> "Wavetable",
   n_samples |-> n_samples,
   sample_rate |-> sample_rate,
   scale_fn |-> scale_fn]

Sinusoidal_init(n_samples, sample_rate, amp_scale_fn, amp_resample_method, freq_scale_fn) ==
  [cls |-> "Sinusoidal",
   n_samples |-> n_samples,
   sample_rate |-> sample_rate,
   amp_scale_fn |-> amp_scale_fn,
   amp_resample_method |-> amp_resample_method,
   freq_scale_fn |-> freq_scale_fn]

Impact_init(n_samples, sample_rate, mag_scale_fn, resample_method, max_tau, max_impact_frequency) ==
  [cls |-> "Impact",
   n_samples |-> n_samples,
   sample_rate |-> sample_rate,
   mag_scale_fn |-> mag_scale_fn,
   resample_method |-> resample_method,
   max_tau |-> max_tau,
   max_impact_frequency |-> max_impact_frequency]

ModalFIR_init(n_samples, sample_rate, amp_scale_fn, amp_resample_method, freq_scale_fn, hz_max, initial_bias) ==
  [cls |-> "ModalFIR",
   n_samples |-> n_samples,
   sample_rate |-> sample_rate,
   amp_scale_fn |-> amp_scale_fn,
   amp_resample_method |-> amp_resample_method,
   freq_scale_fn |-> freq_scale_fn,
   hz_max |-> hz_max,
   initial_bias |-> initial_bias]

\* The values a scale-function argument takes: the default of the class or None.
AmpScaleFns == {None, "exp_sigmoid"}
FreqScaleFns == {None, "frequencies_sigmoid"}

SynthClasses ==
  {"TensorToAudio", "Harmonic", "FilteredNoise", "Wavetable", "Sinusoidal",
   "Impact", "ModalFIR"}

-----------------------------------------------------------------------------
(* Results of an invocation. *)

Returned(value) == [raised |-> None, value |-> value]
Raised(exception) == [raised |-> exception]

Audio(shape, data) == [shape |-> shape, data |-> data]
NoSignal == [shape |-> <<>>]
NoControls == [none |-> TRUE]
NoRaw == [none |-> TRUE]
NoCall == [cls |-> None]

-----------------------------------------------------------------------------
(* TensorToAudio *)

TensorToAudio_get_controls(obj, samples) == Returned([samples |-> samples])

TensorToAudio_get_signal_params == {"samples"}

\* A get_signal that keeps the first channel whatever the size of the axis.
TensorToAudio_get_signal_first_channel(obj, c, rng) ==
  Returned(Audio(DropAxis(Shape(c.samples), 2),
                 [b \in DOMAIN c.samples |->
                    [t \in DOMAIN c.samples[b] |-> c.samples[b][t][1]]]))

\* tf.squeeze(samples, 2)
TensorToAudio_get_signal(obj, c, rng) ==
  IF ~SqueezeOK(Shape(c.samples), 2)
  THEN Raised("InvalidArgumentError")
  ELSE Returned(Audio(DropAxis(Shape(c.samples), 2),
                      [b \in DOMAIN c.samples |->
                         [t \in DOMAIN c.samples[b] |-> c.samples[b][t][1]]]))

-----------------------------------------------------------------------------
(* Harmonic *)

\* harmonic_distribution /= tf.reduce_sum(harmonic_distribution, axis=-1,
\*                                        keepdims=True)
Harmonic_normalize(harmonic_distribution) ==
  [b \in DOMAIN harmonic_distribution |->
     [f \in DOMAIN harmonic_distribution[b] |->
        [k \in DOMAIN harmonic_distribution[b][f] |->
           Divide(harmonic_distribution[b][f][k],
                  reduce_sum(harmonic_distribution[b][f]))]]]

\* The harmonic distribution after the optional scaling and band-limiting,
\* before it is normalized.
Harmonic_bandlimited(obj, harmonic_distribution, f0_hz) ==
  LET scaled == IF obj.scale_fn # None
                THEN exp_sigmoid_all(harmonic_distribution)
                ELSE harmonic_distribution
      n_harmonics == Len(scaled[1][1])
  IN  IF obj.normalize_below_nyquist
      THEN remove_above_nyquist(get_harmonic_frequencies(f0_hz, n_harmonics),
                                scaled, obj.sample_rate)
      ELSE scaled

Harmonic_get_controls(obj, amplitudes, harmonic_distribution, f0_hz) ==
  Returned(
    [amplitudes |-> IF obj.scale_fn # None
                    THEN exp_sigmoid_all(amplitudes)
                    ELSE amplitudes,
     harmonic_distribution |->
       Harmonic_normalize(Harmonic_bandlimited(obj, harmonic_distribution, f0_hz)),
     f0_hz |-> f0_hz])

Harmonic_get_signal_params == {"amplitudes", "harmonic_distribution", "f0_hz"}

Harmonic_get_signal(obj, c, rng) ==
  Returned(Audio(harmonic_synthesis_shape(Shape(c.f0_hz), obj.n_samples),
                 Apply("harmonic_synthesis",
                       <<c.f0_hz, c.amplitudes, c.harmonic_distribution,
                         obj.n_samples, obj.sample_rate>>)))

-----------------------------------------------------------------------------
(* FilteredNoise *)

FilteredNoise_get_controls(obj, magnitudes) ==
  Returned(
    [magnitudes |-> IF obj.scale_fn # None
                    THEN [b \in DOMAIN magnitudes |-> [f \in DOMAIN magnitudes[b] |->
                            [k \in DOMAIN magnitudes[b][f] |->
                               exp_sigmoid(magnitudes[b][f][k] + obj.initial_bias)]]]
                    ELSE magnitudes])

FilteredNoise_get_signal_params == {"magnitudes"}

\* rng is the draw that tf.random.uniform([batch_size, n_samples], -1, 1) makes.
FilteredNoise_get_signal(obj, c, rng) ==
  LET batch_size == Shape(c.magnitudes)[1]
      noise_shape == <<batch_size, obj.n_samples>>
      noise == Apply("random.uniform", <<noise_shape, rng>>)
  IN  Returned(Audio(frequency_filter_shape(noise_shape, Shape(c.magnitudes)),
                     Apply("frequency_filter",
                           <<noise, c.magnitudes, obj.window_size>>)))

-----------------------------------------------------------------------------
(* Wavetable *)

Wavetable_get_controls(obj, amplitudes, wavetables, f0_hz) ==
  Returned(
    [amplitudes |-> IF obj.scale_fn # None
                    THEN exp_sigmoid_all(amplitudes)
                    ELSE amplitudes,
     wavetables |-> IF obj.scale_fn # None
                    THEN exp_sigmoid_all(wavetables)
                    ELSE wavetables,
     f0_hz |-> f0_hz])

Wavetable_get_signal_params == {"amplitudes", "wavetables", "f0_hz"}

Wavetable_get_signal(obj, c, rng) ==
  LET wavetables == Apply("resample", <<c.wavetables, obj.n_samples>>)
  IN  Returned(Audio(wavetable_synthesis_shape(Shape(c.f0_hz), obj.n_samples),
                     Apply("wavetable_synthesis",
                           <<c.amplitudes, wavetables, c.f0_hz, obj.n_samples,
                             obj.sample_rate>>)))

-----------------------------------------------------------------------------
(* Sinusoidal *)

\* A get_controls that scales but does not band-limit.
Sinusoidal_get_controls_unmasked(obj, amplitudes, frequencies) ==
  LET amps == IF obj.amp_scale_fn # None
              THEN exp_sigmoid_all(amplitudes)
              ELSE amplitudes
  IN  IF obj.freq_scale_fn # None
      THEN Returned([amplitudes |-> amps,
                     frequencies |-> frequencies_sigmoid_all(frequencies)])
      ELSE Returned([amplitudes |-> amps, frequencies |-> frequencies])

Sinusoidal_get_controls(obj, amplitudes, frequencies) ==
  LET amps == IF obj.amp_scale_fn # None
              THEN exp_sigmoid_all(amplitudes)
              ELSE amplitudes
      freqs == frequencies_sigmoid_all(frequencies)
  IN  IF obj.freq_scale_fn # None
      THEN Returned([amplitudes |-> remove_above_nyquist(freqs, amps, obj.sample_rate),
                     frequencies |-> freqs])
      ELSE Returned([amplitudes |-> amps, frequencies |-> frequencies])

Sinusoidal_get_signal_params == {"amplitudes", "frequencies"}

\* A get_signal that adds noise drawn at the call to the amplitudes.
Sinusoidal_get_signal_dithered(obj, c, rng) ==
  Returned(Audio(
    oscillator_bank_shape(resample_shape(Shape(c.frequencies), obj.n_samples),
                          resample_shape(Shape(c.amplitudes), obj.n_samples)),
    Apply("oscillator_bank",
          <<Apply("resample", <<c.frequencies, obj.n_samples>>),
            Apply("add", <<Apply("resample", <<c.amplitudes, obj.n_samples,
                                               obj.amp_resample_method>>),
                           Apply("random.uniform", <<Shape(c.amplitudes), rng>>)>>),
            obj.sample_rate>>)))

Sinusoidal_get_signal(obj, c, rng) ==
  LET amplitude_envelopes ==
        Apply("resample", <<c.amplitudes, obj.n_samples, obj.amp_resample_method>>)
      frequency_envelopes == Apply("resample", <<c.frequencies, obj.n_samples>>)
  IN  Returned(Audio(
        oscillator_bank_shape(resample_shape(Shape(c.frequencies), obj.n_samples),
                              resample_shape(Shape(c.amplitudes), obj.n_samples)),
        Apply("oscillator_bank",
              <<frequency_envelopes, amplitude_envelopes, obj.sample_rate>>)))

-----------------------------------------------------------------------------
(* Impact *)

Abs(x) == IF x < 0 THEN -x ELSE x

\* max_tau * mag_scale_fn(2.0 * tau_multiplier) * mag_scale_fn(0.5 * taus)
\*   + 1.0 / sample_rate, in ticks (of 1e-7 s); max_tau is in ticks too.
Impact_tau(obj, tau, tau_multiplier) ==
  LET m == exp_sigmoid(2 * tau_multiplier) \div 10000
      t == exp_sigmoid(tau \div 2) \div 10000
  IN  (((obj.max_tau * m) \div 1000) * t) \div 1000 + 10000000 \div obj.sample_rate

\* A get_controls that does not hand stdevs on.
Impact_get_controls_without_stdevs(obj, magnitudes, stdevs, taus, tau_multiplier, normal) ==
  Returned([magnitudes |-> magnitudes, taus |-> taus])

\* normal is the draw that tf.random.normal(stdevs.shape) makes, in whole units.
Impact_get_controls(obj, magnitudes, stdevs, taus, tau_multiplier, normal) ==
  IF obj.mag_scale_fn # None
  THEN Returned(
         [magnitudes |->
            [b \in DOMAIN magnitudes |-> [f \in DOMAIN magnitudes[b] |->
               [c \in DOMAIN magnitudes[b][f] |->
                  exp_sigmoid(magnitudes[b][f][c]
                              + Abs(stdevs[b][f][c]) * normal[b][f][c])]]],
          stdevs |-> stdevs,
          taus |->
            [b \in DOMAIN taus |-> [f \in DOMAIN taus[b] |->
               [c \in DOMAIN taus[b][f] |->
                  Impact_tau(obj, taus[b][f][c], tau_multiplier[b][1][1])]]]])
  ELSE Returned([magnitudes |-> magnitudes, stdevs |-> stdevs, taus |-> taus])

Impact_get_signal_params == {"magnitudes", "stdevs", "taus"}

\* window_size = int(self.sample_rate / self.max_impact_frequency)
Impact_window_size(obj) == obj.sample_rate \div obj.max_impact_frequency

\* The shape of hertz_gaussian(peak_times, tau), <<>> when the operands do not
\* broadcast: t has shape (1, n_samples, 1).
Impact_hertz_gaussian_shape(obj, peak_times_shape, tau_shape) ==
  LET t_shape == <<1, obj.n_samples, 1>>
  IN  IF ~BroadcastOKAny(t_shape, peak_times_shape) THEN <<>>
      ELSE LET d == BroadcastAny(t_shape, peak_times_shape)
           IN  IF ~BroadcastOKAny(d, tau_shape) THEN <<>>
               ELSE BroadcastAny(tau_shape, BroadcastAny(d, tau_shape))

\* core.resample(inputs [B, F, C], n_timesteps): linear interpolation along
\* the frame axis, the last frame held to the end; the identity when
\* F = n_timesteps.
resample(inputs, n_timesteps) ==
  [b \in DOMAIN inputs |-> [n \in 1..n_timesteps |-> [c \in DOMAIN inputs[b][1] |->
     LET F == Len(inputs[b])
         pos == (n - 1) * F
         i == pos \div n_timesteps + 1
         j == IF i < F THEN i + 1 ELSE F
         r == pos % n_timesteps
     IN  (inputs[b][i][c] * (n_timesteps - r) + inputs[b][j][c] * r)
           \div n_timesteps]]]

\* Padding 'SAME' of a pooling of n positions with window and stride k: the
\* positions that are padded before the first one.
pad_before(n, k) == (CeilDiv(n, k) * k - n) \div 2

\* The positions (counted from 0) that window j (counted from 1) of the
\* pooling covers.
pool_window(n, k, j) ==
  {x \in 0..(n - 1) :
     (j - 1) * k - pad_before(n, k) <= x /\ x < j * k - pad_before(n, k)}

\* A max_pool_with_argmax that reports the last occurrence of the maximum.
max_pool_with_argmax_last(row, k) ==
  [j \in 1..CeilDiv(Len(row), k) |->
     LET w == pool_window(Len(row), k, j)
         val == CHOOSE v \in {row[x + 1] : x \in w} : \A x \in w : row[x + 1] <= v
     IN  [val |-> val,
          ind |-> CHOOSE x \in w : row[x + 1] = val
                                   /\ \A y \in w : row[y + 1] = val => x >= y]]

\* tf.nn.max_pool_with_argmax(input [1, n, 1], k, k, 'SAME') on one batch
\* entry: per window the maximum and the flattened index of its first
\* occurrence.
max_pool_with_argmax(row, k) ==
  [j \in 1..CeilDiv(Len(row), k) |->
     LET w == pool_window(Len(row), k, j)
         val == CHOOSE v \in {row[x + 1] : x \in w} : \A x \in w : row[x + 1] <= v
     IN  [val |-> val,
          ind |-> CHOOSE x \in w : row[x + 1] = val
                                   /\ \A y \in w : row[y + 1] = val => x <= y]]

\* One element of hertz_gaussian(peak_times, tau) scaled by its height:
\*   height * exp(-6 / tau^2 * (t - peak_time - tau / 2)^2)
\* with t = n / sample_rate and peak_time = ind / sample_rate; tau in ticks.
Impact_hertz_gaussian(obj, height, n, ind, tau) ==
  [height |-> height,
   t |-> Divide(n, obj.sample_rate),
   peak_time |-> Divide(ind, obj.sample_rate),
   tau |-> tau]

\* Sample n of the audio is the sum over the windows of the scaled pulses; it
\* is kept as the sequence of its terms.
Impact_get_signal(obj, c, rng) ==
  LET magnitude_envelopes == resample(c.magnitudes, obj.n_samples)
      taus == resample(c.taus, obj.n_samples)
      env_shape == resample_shape(Shape(c.magnitudes), obj.n_samples)
      taus_shape == resample_shape(Shape(c.taus), obj.n_samples)
      window_size == Impact_window_size(obj)
      pooled_shape == max_pool_shape(expand_dims(env_shape, 1), window_size)
      peaks_shape == DropAxis(pooled_shape, 3)
      basis_shape == Impact_hertz_gaussian_shape(obj, peaks_shape, taus_shape)
      pool == [b \in DOMAIN magnitude_envelopes |->
                 max_pool_with_argmax(
                   [n \in 1..obj.n_samples |-> magnitude_envelopes[b][n][1]],
                   window_size)]
  IN  IF window_size < 1 \/ ~SqueezeOK(pooled_shape, 3) \/ basis_shape = <<>>
         \/ ~BroadcastOKAny(peaks_shape, basis_shape)
      THEN Raised("InvalidArgumentError")
      ELSE Returned(Audio(
             DropAxis(BroadcastAny(peaks_shape, basis_shape), 2),
             [b \in DOMAIN pool |-> [n \in 1..obj.n_samples |->
                [j \in DOMAIN pool[b] |->
                   Impact_hertz_gaussian(obj, pool[b][j].val, n - 1,
                                         pool[b][j].ind, taus[b][n][1])]]]))

-----------------------------------------------------------------------------
(* ModalFIR *)

\* gains = 0.01 * self.amp_scale_fn(4.0 * gains + self.initial_bias)
ModalFIR_scale_gain(obj, gain) ==
  exp_sigmoid(4 * gain + obj.initial_bias) \div 100

\* dampings = 0.05 * self.freq_scale_fn(dampings, hz_min=0.0, hz_max=100000.0)
ModalFIR_scale_damping(obj, damping) ==
  (5 * frequencies_sigmoid(damping, 0, 100000)) \div 100

\* frequencies = self.freq_scale_fn(frequencies, hz_min=0.0, hz_max=self.hz_max)
ModalFIR_scale_frequency(obj, frequency) ==
  frequencies_sigmoid(frequency, 0, obj.hz_max)

ModalFIR_get_controls(obj, gains, frequencies, dampings) ==
  LET scaled_gains ==
        IF obj.amp_scale_fn # None
        THEN [b \in DOMAIN gains |-> [f \in DOMAIN gains[b] |->
                [c \in DOMAIN gains[b][f] |-> ModalFIR_scale_gain(obj, gains[b][f][c])]]]
        ELSE gains
      scaled_dampings ==
        IF obj.amp_scale_fn # None
        THEN [b \in DOMAIN dampings |-> [f \in DOMAIN dampings[b] |->
                [c \in DOMAIN dampings[b][f] |->
                   ModalFIR_scale_damping(obj, dampings[b][f][c])]]]
        ELSE dampings
      scaled_frequencies ==
        [b \in DOMAIN frequencies |-> [f \in DOMAIN frequencies[b] |->
           [c \in DOMAIN frequencies[b][f] |->
              ModalFIR_scale_frequency(obj, frequencies[b][f][c])]]]
  IN  IF obj.amp_scale_fn # None /\ obj.freq_scale_fn = None
      THEN Raised("TypeError")   \* self.freq_scale_fn(...) calls None
      ELSE IF obj.freq_scale_fn # None
      THEN Returned([gains |-> remove_above_nyquist(scaled_frequencies, scaled_gains,
                                                    obj.sample_rate),
                     frequencies |-> scaled_frequencies,
                     dampings |-> scaled_dampings])
      ELSE Returned([gains |-> scaled_gains,
                     frequencies |-> frequencies,
                     dampings |-> scaled_dampings])

ModalFIR_get_signal_params == {"gains", "frequencies", "dampings"}

\* The element of a tensor that broadcasting to a larger shape puts at
\* [b][f][c]: an axis of size 1 is repeated.
BroadcastAt(t, b, f, c) ==
  LET bb == IF Len(t) = 1 THEN 1 ELSE b
      ff == IF Len(t[bb]) = 1 THEN 1 ELSE f
      cc == IF Len(t[bb][ff]) = 1 THEN 1 ELSE c
  IN  t[bb][ff][cc]

\* t = tf.range(n_samples) / sample_rate, the quotient kept exactly; the
\* sample axis counts from 1 here.
ModalFIR_t(obj, n) == Divide(n - 1, obj.sample_rate)

\* amplitude_envelopes = gains * tf.exp(-dampings * t): t has shape
\* [n_samples, 1], so that it runs along axis 1 of the controls.
ModalFIR_amplitude_envelopes(obj, c, shape) ==
  [b \in 1..shape[1] |-> [n \in 1..shape[2] |-> [k \in 1..shape[3] |->
     [gain |-> BroadcastAt(c.gains, b, n, k),
      damping |-> BroadcastAt(c.dampings, b, n, k),
      t |-> ModalFIR_t(obj, n)]]]]

\* frequency_envelopes = frequencies * tf.ones_like(amplitude_envelopes)
ModalFIR_frequency_envelopes(obj, c, shape) ==
  [b \in 1..shape[1] |-> [n \in 1..shape[2] |-> [k \in 1..shape[3] |->
     BroadcastAt(c.frequencies, b, n, k)]]]

\* Sample n of oscillator_bank(frequency_envelopes, amplitude_envelopes,
\* sample_rate) for one batch entry.
oscillator_bank_sample(frequency_envelopes, amplitude_envelopes, sample_rate, n) ==
  Apply("oscillator_bank",
        <<frequency_envelopes, amplitude_envelopes, sample_rate, n>>)

\* A sample of tf.zeros_like(ir_half).
ZeroSample == Apply("zeros_like", <<>>)

\* A get_signal that pads the impulse response with zeros after it.
ModalFIR_get_signal_padded_after(obj, c, rng) ==
  LET shape == <<Len(c.gains), obj.n_samples, Len(c.gains[1][1])>>
      amps == ModalFIR_amplitude_envelopes(obj, c, shape)
      freqs == ModalFIR_frequency_envelopes(obj, c, shape)
  IN  IF Len(c.gains[1]) \notin {1, obj.n_samples}
      THEN Raised("InvalidArgumentError")
      ELSE Returned(Audio(<<shape[1], 2 * shape[2]>>,
             [b \in 1..shape[1] |-> [n \in 1..(2 * shape[2]) |->
                IF n > shape[2] THEN ZeroSample
                ELSE oscillator_bank_sample(freqs[b], amps[b], obj.sample_rate, n)]]))

ModalFIR_get_signal(obj, c, rng) ==
  LET t_shape == <<obj.n_samples, 1>>
      decay_ok == BroadcastOKAny(Shape(c.dampings), t_shape)
      decay_shape == BroadcastAny(Shape(c.dampings), t_shape)
      amp_ok == decay_ok /\ BroadcastOKAny(Shape(c.gains), decay_shape)
      amp_shape == BroadcastAny(Shape(c.gains), decay_shape)
      freq_ok == amp_ok /\ BroadcastOKAny(Shape(c.frequencies), amp_shape)
      freq_shape == BroadcastAny(Shape(c.frequencies), amp_shape)
      ir_half_shape == oscillator_bank_shape(freq_shape, amp_shape)
      amplitude_envelopes == ModalFIR_amplitude_envelopes(obj, c, amp_shape)
      frequency_envelopes == ModalFIR_frequency_envelopes(obj, c, freq_shape)
      ir_half ==
        [b \in 1..ir_half_shape[1] |-> [n \in 1..ir_half_shape[2] |->
           oscillator_bank_sample(frequency_envelopes[b], amplitude_envelopes[b],
                                  obj.sample_rate, n)]]
      zeros == [b \in 1..ir_half_shape[1] |-> [n \in 1..ir_half_shape[2] |-> ZeroSample]]
  IN  IF ~freq_ok
      THEN Raised("InvalidArgumentError")
      ELSE Returned(Audio(concat_axis1(ir_half_shape, ir_half_shape),
                          [b \in 1..ir_half_shape[1] |-> zeros[b] \o ir_half[b]]))

-----------------------------------------------------------------------------
(* Encoders: the constructors of the MFCC encoders. *)

\* self.z_audio_spec: fft_size and overlap (in hundredths) per mfcc_time_steps.
z_audio_spec ==
  [m \in {63, 125, 250, 500, 1000} |->
     CASE m = 63 -> [fft_size |-> 2048, overlap |-> 50]
       [] m = 125 -> [fft_size |-> 1024, overlap |-> 50]
       [] m = 250 -> [fft_size |-> 1024, overlap |-> 75]
       [] m = 500 -> [fft_size |-> 512, overlap |-> 75]
       [] m = 1000 -> [fft_size |-> 256, overlap |-> 75]]

\* Encoder.__init__ sets f0_encoder and other_encoders; the layers (z_norm,
\* rnn, tcnn, dense_out) are left out.  z_time_steps is set only when the
\* argument is truthy (0 stands for every falsy argument).
MfccTimeDistributedRnnEncoder_init(mfcc_time_steps, z_time_steps, sample_rate, f0_encoder, other_encoders) ==
  IF mfcc_time_steps \notin {63, 125, 250, 500, 1000}
  THEN Raised("ValueError")
  ELSE LET base == [cls |-> "MfccTimeDistributedRnnEncoder",
                    f0_encoder |-> f0_encoder,
                    other_encoders |-> other_encoders,
                    fft_size |-> z_audio_spec[mfcc_time_steps].fft_size,
                    overlap |-> z_audio_spec[mfcc_time_steps].overlap,
                    sample_rate |-> sample_rate]
       IN  Returned(IF z_time_steps # 0
                    THEN [f \in DOMAIN base \cup {"z_time_steps"} |->
                            IF f = "z_time_steps" THEN z_time_steps ELSE base[f]]
                    ELSE base)

\* super().__init__(rnn_channels=1, z_dims=z_dims, z_time_steps=mfcc_time_steps,
\*                  f0_encoder=f0_encoder, other_encoders=other_encoders, name=name)
\* self.z_time_steps = z_time_steps
\* mfcc_time_steps and sample_rate take the defaults of the base class.
TemporalCnnEncoder_init(z_time_steps, mfcc_time_steps, f0_encoder, other_encoders) ==
  LET base == MfccTimeDistributedRnnEncoder_init(250, mfcc_time_steps, 16000,
                                                 f0_encoder, other_encoders)
  IN  IF base.raised # None
      THEN base
      ELSE Returned([f \in DOMAIN base.value \cup {"z_time_steps"} |->
                       CASE f = "z_time_steps" -> z_time_steps
                         [] f = "cls" -> "TemporalCnnEncoder"
                         [] OTHER -> base.value[f]])

MfccTimeStepsArgs == {63, 100, 125, 250, 500, 1000, 2000}
ZTimeStepsArgs == {0, 125, 250}

\* SinusoidalToHarmonicEncoder.__init__; the layers are left out.
SinusoidalToHarmonicEncoder_init(n_harmonics, amp_scale_fn, f0_depth, hz_min, hz_max, sample_rate) ==
  [cls |-> "SinusoidalToHarmonicEncoder",
   n_harmonics |-> n_harmonics,
   amp_scale_fn |-> amp_scale_fn,
   f0_depth |-> f0_depth,
   hz_min |-> hz_min,
   hz_max |-> hz_max,
   sample_rate |-> sample_rate]

\* frequencies_softmax(f0, depth, hz_min, hz_max): the softmax over the bins
\* puts the frequency at a point of the unit interval (in thousandths), which
\* is mapped into [hz_min, hz_max].
frequencies_softmax(unit, hz_min, hz_max) ==
  hz_min + ((hz_max - hz_min) * unit) \div 1000

\* SinusoidalToHarmonicEncoder.call from the outputs of its network onwards:
\* harm_amp = amp_out(x), harm_dist = hd_out(x), and the point f0_unit at which
\* the softmax of f0_out(x) lies.
SinusoidalToHarmonicEncoder_call(obj, harm_amp, harm_dist, f0_unit) ==
  LET f0_hz == [b \in DOMAIN f0_unit |-> [t \in DOMAIN f0_unit[b] |->
                  [c \in DOMAIN f0_unit[b][t] |->
                     frequencies_softmax(f0_unit[b][t][c], obj.hz_min, obj.hz_max)]]]
      harm_freqs == get_harmonic_frequencies(f0_hz, obj.n_harmonics)
      masked == remove_above_nyquist(harm_freqs, exp_sigmoid_all(harm_dist),
                                     obj.sample_rate)
  IN  IF obj.amp_scale_fn = None
      THEN Raised("TypeError")   \* self.amp_scale_fn(harm_amp) calls None
      ELSE Returned(
             [harm_amp |-> exp_sigmoid_all(harm_amp),
              harm_dist |->
                [b \in DOMAIN masked |-> [t \in DOMAIN masked[b] |->
                   [k \in DOMAIN masked[b][t] |->
                      safe_divide(masked[b][t][k], reduce_sum(masked[b][t]))]]],
              f0_hz |-> f0_hz])

-----------------------------------------------------------------------------
(* Conditioning dicts and the decoders (ddsp/training/decoders.py). *)

\* A tensor of a conditioning dict: its shape and, uninterpreted, its values.
Tensor(shape, data) == [shape |-> shape, data |-> data]

\* The tensor that the dataset provides under `key`.
Dataset(key, shape) == Tensor(shape, Apply(key, <<>>))

\* d.update(outputs)
Update(d, outputs) ==
  [k \in DOMAIN d \cup DOMAIN outputs |->
     IF k \in DOMAIN outputs THEN outputs[k] ELSE d[k]]

\* The values of Python that input_keys takes: a tuple of strings, or a string.
Tuple(items) == [type |-> "tuple", items |-> items]
Str(value) == [type |-> "str", value |-> value]

\* The characters of a string.
Characters(value) ==
  CASE value = "object_embedding" ->
         <<"o", "b", "j", "e", "c", "t", "_", "e", "m", "b", "e", "d", "d", "i",
           "n", "g">>
    [] value = "z" -> <<"z">>

\* What `for k in v` yields: the items of a tuple, the characters of a string.
Iterate(v) == IF v.type = "tuple" THEN v.items ELSE Characters(v.value)

\* sum([v[1] for v in output_splits]) over the first n entries.
RECURSIVE SumSizes(_, _)
SumSizes(output_splits, n) ==
  IF n = 0 THEN 0 ELSE output_splits[n][2] + SumSizes(output_splits, n - 1)

Decoder_init(output_splits) ==
  [cls |-> "Decoder",
   output_splits |-> output_splits,
   n_out |-> SumSizes(output_splits, Len(output_splits))]

\* RnnFcDecoder.__init__; the layers are left out.
RnnFcDecoder_init(input_keys, output_splits) ==
  [cls |-> "RnnFcDecoder",
   output_splits |-> output_splits,
   n_out |-> SumSizes(output_splits, Len(output_splits)),
   input_keys |-> input_keys]

\* FcDecoder.__init__; the layers are left out.
FcDecoder_init(input_keys, output_splits) ==
  [cls |-> "FcDecoder",
   output_splits |-> output_splits,
   n_out |-> SumSizes(output_splits, Len(output_splits)),
   input_keys |-> input_keys]

\* The default input_keys=('object_embedding') of FcDecoder: parentheses
\* around a string, no tuple.
FcDecoder_default_input_keys == Str("object_embedding")

\* [output_splits.extend(d.output_splits) for d in decoder_list], over the
\* first n decoders.
RECURSIVE ExtendSplits(_, _)
ExtendSplits(decoder_list, n) ==
  IF n = 0 THEN <<>>
  ELSE ExtendSplits(decoder_list, n - 1) \o decoder_list[n].output_splits

MultiDecoder_init(decoder_list) ==
  LET output_splits == ExtendSplits(decoder_list, Len(decoder_list))
  IN  [cls |-> "MultiDecoder",
       output_splits |-> output_splits,
       n_out |-> SumSizes(output_splits, Len(output_splits)),
       decoder_list |-> decoder_list]

\* Decoder.decode
Decoder_decode(obj, cond) == Raised("NotImplementedError")

\* inputs = [conditioning[k] for k in self.input_keys], then the network: its
\* output has the leading axes of the inputs and n_out channels.
Network_decode(obj, cond) ==
  LET keys == Iterate(obj.input_keys)
  IN  IF \E i \in DOMAIN keys : keys[i] \notin DOMAIN cond
      THEN Raised("KeyError")
      ELSE LET inputs == [i \in DOMAIN keys |-> cond[keys[i]]]
           IN  Returned(Tensor(<<inputs[1].shape[1], inputs[1].shape[2], obj.n_out>>,
                               Apply(obj.cls, inputs)))

RnnFcDecoder_decode(obj, cond) == Network_decode(obj, cond)

FcDecoder_decode(obj, cond) == Network_decode(obj, cond)

\* d.decode(conditioning), by the class of d; MultiDecoder inherits the decode
\* of Decoder.
decode(d, cond) ==
  CASE d.cls = "RnnFcDecoder" -> RnnFcDecoder_decode(d, cond)
    [] d.cls = "FcDecoder" -> FcDecoder_decode(d, cond)
    [] OTHER -> Decoder_decode(d, cond)

\* nn.split_to_dict(x, output_splits): the slices of x along the last axis,
\* of the sizes and under the labels of output_splits, as a dict (of two
\* entries with one label the later one stays).
split_to_dict(x, output_splits) ==
  [k \in {output_splits[i][1] : i \in DOMAIN output_splits} |->
     LET i == CHOOSE i \in DOMAIN output_splits :
                /\ output_splits[i][1] = k
                /\ \A j \in DOMAIN output_splits : output_splits[j][1] = k => j <= i
     IN  Tensor(<<x.shape[1], x.shape[2], output_splits[i][2]>>,
                Apply("split", <<x.data, SumSizes(output_splits, i - 1),
                                 output_splits[i][2]>>))]

\* The result of a call: what it raised or returned, the dict of the caller
\* as the call left it, and the dicts it handed to decode or compute_z.
Called(raised, value, arg, reads) ==
  [raised |-> raised, value |-> value, arg |-> arg, reads |-> reads]

\* core.copy_if_tf_function(conditioning): the dict itself when executing
\* eagerly, a copy inside a tf.function; `working` is the dict the call works
\* on, the result is the dict of the caller.
copy_if_tf_function(eager, given, working) == IF eager THEN working ELSE given

\* A call that writes its outputs only under the keys the input lacks.
Decoder_call_keeping_inputs(obj, cond, eager) ==
  LET x == decode(obj, cond)
  IN  IF x.raised # None
      THEN Called(x.raised, NoControls, cond, <<cond>>)
      ELSE LET out == Update(split_to_dict(x.value, obj.output_splits), cond)
           IN  Called(None, out, copy_if_tf_function(eager, cond, out), <<cond>>)

\* Decoder.call
Decoder_call(obj, cond, eager) ==
  LET x == decode(obj, cond)
  IN  IF x.raised # None
      THEN Called(x.raised, NoControls, cond, <<cond>>)
      ELSE LET out == Update(cond, split_to_dict(x.value, obj.output_splits))
           IN  Called(None, out, copy_if_tf_function(eager, cond, out), <<cond>>)

\* The loop of MultiDecoder.call over the first n decoders, on dict cond.
RECURSIVE MultiDecoder_loop(_, _, _)
MultiDecoder_loop(decoder_list, n, cond) ==
  IF n = 0 THEN Called(None, cond, cond, <<>>)
  ELSE LET before == MultiDecoder_loop(decoder_list, n - 1, cond)
       IN  IF before.raised # None THEN before
           ELSE LET d == decoder_list[n]
                    x == decode(d, before.value)
                    reads == Append(before.reads, before.value)
                IN  IF x.raised # None
                    THEN Called(x.raised, NoControls, before.arg, reads)
                    ELSE LET out == Update(before.value,
                                           split_to_dict(x.value, d.output_splits))
                         IN  Called(None, out, out, reads)

\* A loop that hands every decoder the dict as it was given to the call.
RECURSIVE MultiDecoder_loop_on_input(_, _, _)
MultiDecoder_loop_on_input(decoder_list, n, cond) ==
  IF n = 0 THEN Called(None, cond, cond, <<>>)
  ELSE LET before == MultiDecoder_loop_on_input(decoder_list, n - 1, cond)
       IN  IF before.raised # None THEN before
           ELSE LET d == decoder_list[n]
                    x == decode(d, cond)
                    reads == Append(before.reads, cond)
                IN  IF x.raised # None
                    THEN Called(x.raised, NoControls, before.arg, reads)
                    ELSE LET out == Update(before.value,
                                           split_to_dict(x.value, d.output_splits))
                         IN  Called(None, out, out, reads)

\* A MultiDecoder.call that hands every decoder the dict as it was given.
MultiDecoder_call_on_input(obj, cond, eager) ==
  LET res == MultiDecoder_loop_on_input(obj.decoder_list, Len(obj.decoder_list), cond)
  IN  Called(res.raised, res.value, copy_if_tf_function(eager, cond, res.arg),
             res.reads)

\* MultiDecoder.call
MultiDecoder_call(obj, cond, eager) ==
  LET res == MultiDecoder_loop(obj.decoder_list, Len(obj.decoder_list), cond)
  IN  Called(res.raised, res.value, copy_if_tf_function(eager, cond, res.arg),
             res.reads)

-----------------------------------------------------------------------------
(* Encoder.call (ddsp/training/encoders.py). *)

\* ResnetF0Encoder.__init__; the layers are left out.
ResnetF0Encoder_init(f0_bins) == [cls |-> "ResnetF0Encoder", f0_bins |-> f0_bins]

EmbeddingContextEncoder_init(vocab_size, vector_length, conditioning_key, output_key) ==
  [cls |-> "EmbeddingContextEncoder",
   vocab_size |-> vocab_size,
   vector_length |-> vector_length,
   conditioning_key |-> conditioning_key,
   output_key |-> output_key]

\* The units of dense_out, the default of z_dims.
z_dims == 32

\* ResnetF0Encoder.compute_f0: f0 from the audio, resampled to the time steps
\* of the 'f0_scaled' that the dict holds.
ResnetF0Encoder_compute_f0(enc, cond) ==
  IF "audio" \notin DOMAIN cond \/ "f0_scaled" \notin DOMAIN cond
  THEN Raised("KeyError")
  ELSE Returned(Tensor(<<cond.audio.shape[1], cond.f0_scaled.shape[2], 1>>,
                       Apply("compute_f0", <<cond.audio.data>>)))

\* ddsp.core.midi_to_hz(f0_scaled * 127.0)
midi_to_hz_of_scaled(f0_scaled) ==
  Tensor(f0_scaled.shape,
         Apply("midi_to_hz", <<Apply("multiply", <<f0_scaled.data, 127>>)>>))

\* The frames of spectral_ops.compute_mfcc(audio, fft_size, overlap,
\* pad_end=True): one per hop of fft_size * (1 - overlap) samples; overlap in
\* hundredths.
mfcc_frames(n_audio, fft_size, overlap) ==
  CeilDiv(n_audio * 100, fft_size * (100 - overlap))

\* MfccTimeDistributedRnnEncoder.compute_z: [batch, frames, z_dims] from the
\* audio.
MfccTimeDistributedRnnEncoder_compute_z(obj, cond) ==
  IF "audio" \notin DOMAIN cond
  THEN Raised("KeyError")
  ELSE Returned(Tensor(<<cond.audio.shape[1],
                         mfcc_frames(cond.audio.shape[2], obj.fft_size, obj.overlap),
                         z_dims>>,
                       Apply("compute_z", <<cond.audio.data>>)))

\* An expand_z that adds the time axis and resamples nothing.
expand_z_without_resample(z, time_steps) ==
  Returned(IF Len(z.shape) = 2
           THEN Tensor(<<z.shape[1], 1, z.shape[2]>>, z.data)
           ELSE z)

\* Encoder.expand_z; resampling to time steps that are None or 0 fails.
expand_z(z, time_steps) ==
  LET z3 == IF Len(z.shape) = 2
            THEN Tensor(<<z.shape[1], 1, z.shape[2]>>, z.data)
            ELSE z
  IN  IF z3.shape[2] = time_steps THEN Returned(z3)
      ELSE IF time_steps = 0 THEN Raised("TypeError")
      ELSE Returned(Tensor(resample_shape(z3.shape, time_steps),
                           Apply("resample", <<z3.data, time_steps>>)))

\* Encoder.concat_encoding
concat_encoding(enc, z) ==
  LET expanded == expand_z(enc, z.shape[2])
  IN  IF expanded.raised # None THEN expanded
      ELSE Returned(Tensor(<<z.shape[1], z.shape[2],
                             z.shape[3] + expanded.value.shape[3]>>,
                           Apply("concat", <<z.data, expanded.value.data>>)))

\* EmbeddingContextEncoder.call: the dict with the embedding under output_key.
EmbeddingContextEncoder_call(enc, cond) ==
  IF enc.conditioning_key \notin DOMAIN cond
  THEN Raised("KeyError")
  ELSE Returned(Update(cond,
         [k \in {enc.output_key} |->
            Tensor(cond[enc.conditioning_key].shape \o <<enc.vector_length>>,
                   Apply("embedding", <<cond[enc.conditioning_key].data>>))]))

\* The loop of Encoder.call over the first n of other_encoders: the dict and
\* the z it leaves.
RECURSIVE Encoder_concat_loop(_, _, _, _)
Encoder_concat_loop(other_encoders, n, cond, z) ==
  IF n = 0 THEN [raised |-> None, cond |-> cond, z |-> z]
  ELSE LET before == Encoder_concat_loop(other_encoders, n - 1, cond, z)
       IN  IF before.raised # None THEN before
           ELSE LET enc == other_encoders[n]
                    out == EmbeddingContextEncoder_call(enc, before.cond)
                IN  IF out.raised # None
                    THEN [raised |-> out.raised, cond |-> before.cond, z |-> before.z]
                    ELSE LET joined == concat_encoding(out.value[enc.output_key],
                                                       before.z)
                         IN  IF joined.raised # None
                             THEN [raised |-> joined.raised, cond |-> out.value,
                                   z |-> before.z]
                             ELSE [raised |-> None, cond |-> out.value,
                                   z |-> joined.value]

\* The part of Encoder.call after the f0 encoder, on dict cond.
Encoder_call_z(obj, cond) ==
  LET z == MfccTimeDistributedRnnEncoder_compute_z(obj, cond)
  IN  IF z.raised # None THEN Called(z.raised, NoControls, cond, <<cond>>)
      ELSE LET expanded ==
                 IF "f0_scaled" \in DOMAIN cond
                 THEN expand_z(z.value, cond.f0_scaled.shape[2])
                 ELSE IF "z_time_steps" \in DOMAIN obj
                 THEN expand_z(z.value, obj.z_time_steps)
                 ELSE z
           IN  IF expanded.raised # None
               THEN Called(expanded.raised, NoControls, cond, <<cond>>)
               ELSE LET looped == Encoder_concat_loop(obj.other_encoders,
                                                      Len(obj.other_encoders),
                                                      cond, expanded.value)
                    IN  IF looped.raised # None
                        THEN Called(looped.raised, NoControls, looped.cond, <<cond>>)
                        ELSE LET out == Update(looped.cond,
                                               [k \in {"z"} |-> looped.z])
                             IN  Called(None, out, out, <<cond>>)

\* An Encoder.call that computes z before it asks the f0 encoder.
Encoder_call_z_first(obj, cond) ==
  LET res == Encoder_call_z(obj, cond)
      f0 == ResnetF0Encoder_compute_f0(obj.f0_encoder, cond)
  IN  IF obj.f0_encoder = NoObject \/ res.raised # None THEN res
      ELSE IF f0.raised # None THEN Called(f0.raised, NoControls, res.arg, res.reads)
      ELSE LET out == Update(res.value,
                             [k \in {"f0_scaled", "f0_hz"} |->
                                IF k = "f0_scaled" THEN f0.value
                                ELSE midi_to_hz_of_scaled(f0.value)])
           IN  Called(None, out, out, res.reads)

\* Encoder.call: it works on the dict of the caller.
Encoder_call(obj, cond) ==
  IF obj.f0_encoder = NoObject
  THEN Encoder_call_z(obj, cond)
  ELSE LET f0 == ResnetF0Encoder_compute_f0(obj.f0_encoder, cond)
       IN  IF f0.raised # None THEN Called(f0.raised, NoControls, cond, <<>>)
           ELSE Encoder_call_z(obj,
                  Update(cond, [k \in {"f0_scaled", "f0_hz"} |->
                                  IF k = "f0_scaled" THEN f0.value
                                  ELSE midi_to_hz_of_scaled(f0.value)]))

-----------------------------------------------------------------------------
(* The state machine. *)

Init ==
  /\ self = NoObject
  /\ ctor = NoCall
  /\ last = "none"
  /\ raw = NoRaw
  /\ controls = NoControls
  /\ signal = NoSignal
  /\ prev = NoSignal
  /\ err = None
  /\ conditioning = NoRaw
  /\ seen = <<>>

\* A constructor call: the object exists only if the constructor returned.
Constructed(call, res) ==
  /\ last = "none"
  /\ ctor' = call
  /\ last' = "__init__"
  /\ err' = res.raised
  /\ self' = IF res.raised = None THEN res.value ELSE NoObject
  /\ UNCHANGED <<raw, controls, signal, prev, conditioning, seen>>

New_TensorToAudio ==
  Constructed([cls |-> "TensorToAudio"], Returned(TensorToAudio_init))

New_Harmonic ==
  \E n \in NSamples, sr \in SampleRates, fn \in AmpScaleFns, nbn \in BOOLEAN :
    Constructed([cls |-> "Harmonic"], Returned(Harmonic_init(n, sr, fn, nbn)))

New_FilteredNoise ==
  \E n \in NSamples, fn \in AmpScaleFns :
    Constructed([cls |-> "FilteredNoise"],
                Returned(FilteredNoise_init(n, 257, fn, Tick(-5))))

New_Wavetable ==
  \E n \in NSamples, sr \in SampleRates, fn \in AmpScaleFns :
    Constructed([cls |-> "Wavetable"], Returned(Wavetable_init(n, sr, fn)))

New_Sinusoidal ==
  \E n \in NSamples, sr \in SampleRates, afn \in AmpScaleFns, ffn \in FreqScaleFns :
    Constructed([cls |-> "Sinusoidal"],
                Returned(Sinusoidal_init(n, sr, afn, "window", ffn)))

\* n_samples and max_impact_frequency of an Impact module: windows of 533, 3
\* and 2 samples at 16 kHz.
ImpactNSamples == NSamples \cup {MaxSamples + 1}
ImpactFrequencies == {30, 5000, 8000}

New_Impact ==
  \E n \in ImpactNSamples, sr \in SampleRates, fn \in AmpScaleFns, mif \in ImpactFrequencies :
    Constructed([cls |-> "Impact"],
                Returned(Impact_init(n, sr, fn, "window", 10000, mif)))

New_ModalFIR ==
  \E n \in NSamples, sr \in SampleRates, afn \in AmpScaleFns, ffn \in FreqScaleFns :
    Constructed([cls |-> "ModalFIR"],
                Returned(ModalFIR_init(n, sr, afn, "window", ffn, 8000, -15000000)))

\* The f0_encoder argument: None (no object) or a ResnetF0Encoder; the
\* other_encoders argument: None or an empty list (both <<>>), or a list of one
\* EmbeddingContextEncoder.
F0EncoderArgs == {NoObject, ResnetF0Encoder_init(128)}
OtherEncodersArgs ==
  {<<>>, <<EmbeddingContextEncoder_init(10, 8, "instrument_id", "instrument")>>}

New_MfccTimeDistributedRnnEncoder ==
  \E m \in MfccTimeStepsArgs, z \in ZTimeStepsArgs, f0_encoder \in F0EncoderArgs, other_encoders \in OtherEncodersArgs :
    Constructed([cls |-> "MfccTimeDistributedRnnEncoder",
                 mfcc_time_steps |-> m, z_time_steps |-> z],
                MfccTimeDistributedRnnEncoder_init(m, z, 16000, f0_encoder, other_encoders))

New_TemporalCnnEncoder ==
  \E m \in MfccTimeStepsArgs, z \in ZTimeStepsArgs, f0_encoder \in F0EncoderArgs, other_encoders \in OtherEncodersArgs :
    Constructed([cls |-> "TemporalCnnEncoder",
                 mfcc_time_steps |-> m, z_time_steps |-> z],
                TemporalCnnEncoder_init(z, m, f0_encoder, other_encoders))

New_SinusoidalToHarmonicEncoder ==
  \E H \in Channels, fn \in AmpScaleFns, hz_max \in {1200, 8000} :
    Constructed([cls |-> "SinusoidalToHarmonicEncoder"],
                Returned(SinusoidalToHarmonicEncoder_init(H, fn, 64, 20, hz_max,
                                                          16000)))

\* A method that keeps its window in the attribute it was configured with.
attributes_after_call_rescaled(obj) ==
  IF "n_samples" \in DOMAIN obj
  THEN [obj EXCEPT !.n_samples = 2 * obj.n_samples]
  ELSE obj

\* The attributes of the object after get_controls or get_signal has run:
\* neither method assigns to self.
attributes_after_call(obj) == obj

\* get_controls was invoked with arguments args and ended as res.
ControlsStep(args, res) ==
  /\ raw' = args
  /\ last' = "get_controls"
  /\ err' = res.raised
  /\ controls' = IF res.raised = None THEN res.value ELSE NoControls
  /\ signal' = NoSignal
  /\ prev' = NoSignal
  /\ self' = attributes_after_call(self)
  /\ UNCHANGED <<ctor, conditioning, seen>>

\* The tensors [B, F, C] handed to a module: one constant row everywhere but
\* at the last frame of the last batch, which holds any row.
Inputs(B, F, C, V) ==
  {PatternTensor(B, F, <<B, F>>, [c \in 1..C |-> v], spec) :
     v \in V, spec \in Rows(C, V)}

\* The tensors [B, F, C] that hold one value everywhere.
Constants(B, F, C, V) ==
  {PatternTensor(B, F, <<B, F>>, [c \in 1..C |-> v], [c \in 1..C |-> v]) : v \in V}

\* The arguments of an invocation of get_controls: any of `inputs` the first
\* time, the same batch again after that.
Batch(inputs) == IF last = "__init__" THEN inputs ELSE {raw}

TensorToAudio_inputs ==
  UNION {[samples : Inputs(B, T, C, AudioValues)] :
           <<B, T, C>> \in Batches \X Frames \X Channels}

GetControls_TensorToAudio ==
  /\ self.cls = "TensorToAudio"
  /\ \E a \in Batch(TensorToAudio_inputs) :
       ControlsStep(a, TensorToAudio_get_controls(self, a.samples))

Harmonic_inputs ==
  UNION {[amplitudes : Constants(B, F, 1, Amplitudes(self.scale_fn)),
          harmonic_distribution : Inputs(B, F, H, Amplitudes(self.scale_fn)),
          f0_hz : Inputs(B, F, 1, F0Values)] :
           <<B, F, H>> \in Batches \X Frames \X Channels}

GetControls_Harmonic ==
  /\ self.cls = "Harmonic"
  /\ \E a \in Batch(Harmonic_inputs) :
       ControlsStep(a, Harmonic_get_controls(self, a.amplitudes,
                                             a.harmonic_distribution, a.f0_hz))

FilteredNoise_inputs ==
  UNION {[magnitudes : Inputs(B, F, K, Amplitudes(self.scale_fn))] :
           <<B, F, K>> \in Batches \X Frames \X Channels}

GetControls_FilteredNoise ==
  /\ self.cls = "FilteredNoise"
  /\ \E a \in Batch(FilteredNoise_inputs) :
       ControlsStep(a, FilteredNoise_get_controls(self, a.magnitudes))

Wavetable_inputs ==
  UNION {[amplitudes : Constants(B, F, 1, Amplitudes(self.scale_fn)),
          wavetables : Inputs(B, F, W, Amplitudes(self.scale_fn)),
          f0_hz : Constants(B, F, 1, F0Values)] :
           <<B, F, W>> \in Batches \X Frames \X Channels}

GetControls_Wavetable ==
  /\ self.cls = "Wavetable"
  /\ \E a \in Batch(Wavetable_inputs) :
       ControlsStep(a, Wavetable_get_controls(self, a.amplitudes, a.wavetables,
                                              a.f0_hz))

Sinusoidal_inputs ==
  UNION {[amplitudes : Inputs(B, F, S, Amplitudes(self.amp_scale_fn)),
          frequencies : Inputs(B, F, S, Frequencies(self.freq_scale_fn))] :
           <<B, F, S>> \in Batches \X Frames \X Channels}

GetControls_Sinusoidal ==
  /\ self.cls = "Sinusoidal"
  /\ \E a \in Batch(Sinusoidal_inputs) :
       ControlsStep(a, Sinusoidal_get_controls(self, a.amplitudes, a.frequencies))

NormalDraws == {-1, 1}

\* Raw time constants in ticks: logits for a module that scales them, 0.1 ms
\* and 2 ms for a module that has no scale function.
Taus(scale_fn) == IF scale_fn = None THEN {1000, 20000} ELSE Logits

Impact_inputs ==
  UNION {[magnitudes : Inputs(B, F, 1, Amplitudes(self.mag_scale_fn)),
          stdevs : Inputs(B, F, 1, Logits),
          taus : Inputs(B, F, 1, Taus(self.mag_scale_fn)),
          tau_multiplier : Inputs(B, 1, 1, Logits)] :
           <<B, F>> \in Batches \X (Frames \cup {self.n_samples})}

\* Every invocation draws its own noise, of the shape of stdevs.
GetControls_Impact ==
  /\ self.cls = "Impact"
  /\ \E a \in Batch(Impact_inputs) :
       \E normal \in Inputs(Len(a.stdevs), Len(a.stdevs[1]), 1, NormalDraws) :
         ControlsStep(a, Impact_get_controls(self, a.magnitudes, a.stdevs, a.taus,
                                             a.tau_multiplier, normal))

ModalFIR_inputs ==
  UNION {[gains : Inputs(B, F, S, Amplitudes(self.amp_scale_fn)),
          frequencies : Inputs(B, F, S, Frequencies(self.freq_scale_fn)),
          dampings : Constants(B, F, S, Dampings(self.amp_scale_fn))] :
           <<B, F, S>> \in Batches \X Frames \X Channels}

GetControls_ModalFIR ==
  /\ self.cls = "ModalFIR"
  /\ \E a \in Batch(ModalFIR_inputs) :
       ControlsStep(a, ModalFIR_get_controls(self, a.gains, a.frequencies,
                                             a.dampings))

SinusoidalToHarmonicEncoder_outputs ==
  UNION {[harm_amp : Constants(B, T, 1, Logits),
          harm_dist : Inputs(B, T, self.n_harmonics, Logits),
          f0_unit : Inputs(B, T, 1, {0, 500, 1000})] :
           <<B, T>> \in Batches \X Frames}

\* The encoder is called; raw holds what its network put out.
Call_SinusoidalToHarmonicEncoder ==
  /\ self.cls = "SinusoidalToHarmonicEncoder"
  /\ \E a \in Batch(SinusoidalToHarmonicEncoder_outputs) :
       LET res == SinusoidalToHarmonicEncoder_call(self, a.harm_amp, a.harm_dist,
                                                   a.f0_unit)
       IN  /\ raw' = a
           /\ last' = "call"
           /\ err' = res.raised
           /\ controls' = IF res.raised = None THEN res.value ELSE NoControls
           /\ self' = attributes_after_call(self)
           /\ UNCHANGED <<ctor, signal, prev, conditioning, seen>>

\* A call of an encoder or decoder on the dict arg ended as res.
CallStep(arg, res) ==
  /\ raw' = arg
  /\ last' = "call"
  /\ err' = res.raised
  /\ controls' = res.value
  /\ conditioning' = res.arg
  /\ seen' = res.reads
  /\ self' = attributes_after_call(self)
  /\ UNCHANGED <<ctor, signal, prev>>

\* The output_splits of the decoders: the defaults of Decoder and FcDecoder,
\* and one that shares the label 'amps' with the default.
DefaultSplits == <<<<"amps", 1>>, <<"harmonic_distribution", 40>>>>
NoiseSplits == <<<<"amps", 1>>, <<"noise_magnitudes", 65>>>>
FcDecoderSplits == <<<<"frequencies", 200>>, <<"gains", 200>>, <<"dampings", 200>>>>

RnnFcDecoderInputKeys ==
  {Tuple(<<"ld_scaled", "f0_scaled", "z">>), Tuple(<<"ld_scaled", "f0_scaled">>),
   Tuple(<<"f0_scaled", "amps">>)}

FcDecoderInputKeys ==
  {FcDecoder_default_input_keys, Tuple(<<"object_embedding">>), Str("z")}

New_Decoder ==
  Constructed([cls |-> "Decoder"], Returned(Decoder_init(DefaultSplits)))

New_RnnFcDecoder ==
  \E input_keys \in RnnFcDecoderInputKeys, output_splits \in {DefaultSplits, NoiseSplits} :
    Constructed([cls |-> "RnnFcDecoder", input_keys |-> input_keys],
                Returned(RnnFcDecoder_init(input_keys, output_splits)))

New_FcDecoder ==
  \E input_keys \in FcDecoderInputKeys :
    Constructed([cls |-> "FcDecoder", input_keys |-> input_keys],
                Returned(FcDecoder_init(input_keys, FcDecoderSplits)))

\* The decoders that a MultiDecoder combines, in lists of one or two.
ListedDecoders ==
  {RnnFcDecoder_init(Tuple(<<"ld_scaled", "f0_scaled">>), DefaultSplits),
   RnnFcDecoder_init(Tuple(<<"f0_scaled", "amps">>), NoiseSplits),
   FcDecoder_init(Tuple(<<"object_embedding">>), FcDecoderSplits)}

DecoderLists ==
  {<<d>> : d \in ListedDecoders} \cup {<<d, e>> : d \in ListedDecoders, e \in ListedDecoders}

New_MultiDecoder ==
  \E decoder_list \in DecoderLists :
    Constructed([cls |-> "MultiDecoder"], Returned(MultiDecoder_init(decoder_list)))

\* The dicts handed to a decoder: dataset tensors [1, 2, 1] under some keys.
DecoderKeys == {"ld_scaled", "f0_scaled", "z", "object_embedding", "amps"}

DecoderConditionings ==
  {[k \in K |-> Dataset(k, <<1, 2, 1>>)] : K \in SUBSET DecoderKeys \ {{}}}

\* Decoder.call, of Decoder and of the classes that inherit it; it runs
\* eagerly or inside a tf.function.
Call_Decoder ==
  /\ self.cls \in {"Decoder", "RnnFcDecoder", "FcDecoder"}
  /\ \E cond \in Batch(DecoderConditionings), eager \in BOOLEAN :
       CallStep(cond, Decoder_call(self, cond, eager))

Call_MultiDecoder ==
  /\ self.cls = "MultiDecoder"
  /\ \E cond \in Batch(DecoderConditionings), eager \in BOOLEAN :
       CallStep(cond, MultiDecoder_call(self, cond, eager))

\* The dicts handed to an encoder: audio of 512 or 64000 samples or none, the
\* f0 of the dataset in 3 or 1000 time steps or none, an instrument index or
\* none.
EncoderConditionings ==
  {[k \in K |->
      CASE k = "audio" -> Dataset("audio", <<1, n_audio>>)
        [] k = "f0_scaled" -> Dataset("f0_scaled", <<1, n_f0, 1>>)
        [] k = "f0_hz" -> Dataset("f0_hz", <<1, n_f0, 1>>)
        [] k = "instrument_id" -> Dataset("instrument_id", <<1>>)] :
     K \in {A \cup F \cup I : A \in {{}, {"audio"}},
                              F \in {{}, {"f0_scaled", "f0_hz"}},
                              I \in {{}, {"instrument_id"}}},
     n_audio \in {512, 64000}, n_f0 \in {3, 1000}}

\* Encoder.call, of the classes that inherit it.
Call_Encoder ==
  /\ self.cls \in {"MfccTimeDistributedRnnEncoder", "TemporalCnnEncoder"}
  /\ \E cond \in Batch(EncoderConditionings) :
       CallStep(cond, Encoder_call(self, cond))

\* The draws of the random number generator that an invocation may see.
RngDraws == {0, 1}

\* get_signal(**controls) was invoked and ended as res: the call itself fails
\* when the keys of controls are not the parameters of get_signal.
SignalStep(params, res) ==
  LET out == IF DOMAIN controls # params THEN Raised("TypeError") ELSE res
  IN  /\ last' = "get_signal"
      /\ err' = out.raised
      /\ signal' = IF out.raised = None THEN out.value ELSE NoSignal
      /\ prev' = IF last = "get_signal" THEN signal ELSE NoSignal
      /\ self' = attributes_after_call(self)
      /\ UNCHANGED <<ctor, raw, controls, conditioning, seen>>

HasControls == last \in {"get_controls", "get_signal"} /\ controls # NoControls

GetSignal_TensorToAudio ==
  /\ self.cls = "TensorToAudio" /\ HasControls
  /\ \E rng \in RngDraws :
       SignalStep(TensorToAudio_get_signal_params,
                  TensorToAudio_get_signal(self, controls, rng))

GetSignal_Harmonic ==
  /\ self.cls = "Harmonic" /\ HasControls
  /\ \E rng \in RngDraws :
       SignalStep(Harmonic_get_signal_params,
                  Harmonic_get_signal(self, controls, rng))

GetSignal_FilteredNoise ==
  /\ self.cls = "FilteredNoise" /\ HasControls
  /\ \E rng \in RngDraws :
       SignalStep(FilteredNoise_get_signal_params,
                  FilteredNoise_get_signal(self, controls, rng))

GetSignal_Wavetable ==
  /\ self.cls = "Wavetable" /\ HasControls
  /\ \E rng \in RngDraws :
       SignalStep(Wavetable_get_signal_params,
                  Wavetable_get_signal(self, controls, rng))

GetSignal_Sinusoidal ==
  /\ self.cls = "Sinusoidal" /\ HasControls
  /\ \E rng \in RngDraws :
       SignalStep(Sinusoidal_get_signal_params,
                  Sinusoidal_get_signal(self, controls, rng))

GetSignal_Impact ==
  /\ self.cls = "Impact" /\ HasControls
  /\ \E rng \in RngDraws :
       SignalStep(Impact_get_signal_params,
                  Impact_get_signal(self, controls, rng))

GetSignal_ModalFIR ==
  /\ self.cls = "ModalFIR" /\ HasControls
  /\ \E rng \in RngDraws :
       SignalStep(ModalFIR_get_signal_params,
                  ModalFIR_get_signal(self, controls, rng))

Next ==
  \/ New_TensorToAudio
  \/ New_Harmonic
  \/ New_FilteredNoise
  \/ New_Wavetable
  \/ New_Sinusoidal
  \/ New_Impact
  \/ New_ModalFIR
  \/ New_MfccTimeDistributedRnnEncoder
  \/ New_TemporalCnnEncoder
  \/ New_SinusoidalToHarmonicEncoder
  \/ GetControls_TensorToAudio
  \/ GetControls_Harmonic
  \/ GetControls_FilteredNoise
  \/ GetControls_Wavetable
  \/ GetControls_Sinusoidal
  \/ GetControls_Impact
  \/ GetControls_ModalFIR
  \/ GetSignal_TensorToAudio
  \/ GetSignal_Harmonic
  \/ GetSignal_FilteredNoise
  \/ GetSignal_Wavetable
  \/ GetSignal_Sinusoidal
  \/ GetSignal_Impact
  \/ GetSignal_ModalFIR
  \/ Call_SinusoidalToHarmonicEncoder
  \/ New_Decoder
  \/ New_RnnFcDecoder
  \/ New_FcDecoder
  \/ New_MultiDecoder
  \/ Call_Decoder
  \/ Call_MultiDecoder
  \/ Call_Encoder

Spec == Init /\ [][Next]_vars

-----------------------------------------------------------------------------
(* Properties. *)

IsSynth == self.cls \in SynthClasses

\* The parameter names of get_signal, per class.
get_signal_params(cls) ==
  CASE cls = "TensorToAudio" -> TensorToAudio_get_signal_params
    [] cls = "Harmonic" -> Harmonic_get_signal_params
    [] cls = "FilteredNoise" -> FilteredNoise_get_signal_params
    [] cls = "Wavetable" -> Wavetable_get_signal_params
    [] cls = "Sinusoidal" -> Sinusoidal_get_signal_params
    [] cls = "Impact" -> Impact_get_signal_params
    [] cls = "ModalFIR" -> ModalFIR_get_signal_params

\* get_signal has returned.
SignalReturned == IsSynth /\ last = "get_signal" /\ err = None

\* get_controls has returned.
ControlsReturned == IsSynth /\ last = "get_controls" /\ err = None

\* The batch size of the controls: every control tensor has the same.
BatchSize == Len(controls[CHOOSE k \in DOMAIN controls : TRUE])

\* The number of samples asked for: n_samples, and for TensorToAudio, which
\* has no such attribute, the time axis of the samples.
SamplesAskedFor ==
  IF self.cls = "TensorToAudio" THEN Len(controls.samples[1]) ELSE self.n_samples

\* C1: whenever get_signal returns, the audio has shape [batch, n_samples].
C1_SignalShapeIsBatchByNSamples ==
  SignalReturned => signal.shape = <<BatchSize, SamplesAskedFor>>

\* The numerators of a row of quotients.
Numerators(row) == [k \in DOMAIN row |-> row[k].num]

\* A row of quotients over one denominator sums to 1.
SumsToOne(row) ==
  /\ \A k \in DOMAIN row : row[k].den # 0 /\ row[k].den = row[1].den
  /\ reduce_sum(Numerators(row)) = row[1].den

\* C2: the harmonic_distribution that Harmonic.get_controls returns sums to 1
\* along the harmonic axis at every batch and frame index.
C2_HarmonicDistributionSumsToOne ==
  (ControlsReturned /\ self.cls = "Harmonic") =>
    \A b \in DOMAIN controls.harmonic_distribution :
      \A f \in DOMAIN controls.harmonic_distribution[b] :
        SumsToOne(controls.harmonic_distribution[b][f])

\* C3: the keys of the dict that get_controls returns are exactly the
\* parameters of the module's get_signal, and get_signal(**controls) never
\* fails on a key.
C3_ControlKeysAreSignalParams ==
  /\ ControlsReturned => DOMAIN controls = get_signal_params(self.cls)
  /\ (IsSynth /\ last = "get_signal") => err # "TypeError"

C3_Witness ==
  /\ self.cls = "Impact"
  /\ last = "get_signal"
  /\ err = None
  /\ DOMAIN controls = {"magnitudes", "stdevs", "taus"}

\* Two get_signal calls were made in a row on the same controls, and both
\* returned.
CalledTwice == SignalReturned /\ prev # NoSignal

\* C4 as claimed: two get_signal calls of any module on the same controls
\* return the same audio.
C4_GetSignalDeterministic == CalledTwice => signal = prev

\* C4: two get_signal calls of any module but FilteredNoise on the same
\* controls return the same audio, whatever the random generator draws.
C4_GetSignalDeterministicButNoise ==
  (CalledTwice /\ self.cls # "FilteredNoise") => signal = prev

C4_Witness ==
  /\ CalledTwice
  /\ self.cls = "Sinusoidal"
  /\ signal = prev

\* C5: once the object is constructed, no get_controls or get_signal changes
\* any of its attributes.
C5_AttributesNeverChange == [][self # NoObject => self' = self]_vars

C5_Witness ==
  /\ self.cls = "Impact"
  /\ CalledTwice
  /\ self = Impact_init(MaxSamples, 16000, "exp_sigmoid", "window", 10000, 30)

\* C6: constructing an MFCC encoder with an unsupported mfcc_time_steps raises
\* ValueError and yields no encoder.
C6_UnsupportedMfccTimeStepsRaises ==
  (/\ last = "__init__"
   /\ ctor.cls \in {"MfccTimeDistributedRnnEncoder", "TemporalCnnEncoder"}
   /\ ctor.mfcc_time_steps \notin {63, 125, 250, 500, 1000})
  => (err = "ValueError" /\ self = NoObject)

\* The amplitude control of a Sinusoidal or ModalFIR module and the amplitude
\* it has after scaling alone.
BandLimitedControl == IF self.cls = "Sinusoidal" THEN "amplitudes" ELSE "gains"

ScaledAmplitude(x) ==
  IF self.amp_scale_fn = None THEN x
  ELSE IF self.cls = "Sinusoidal" THEN exp_sigmoid(x)
  ELSE ModalFIR_scale_gain(self, x)

\* Every returned amplitude at or above Nyquist is zero, every other one is
\* the scaled amplitude.
BandLimited ==
  LET amps == controls[BandLimitedControl]
      given == raw[BandLimitedControl]
  IN  \A b \in DOMAIN amps : \A f \in DOMAIN amps[b] : \A c \in DOMAIN amps[b][f] :
        IF 2 * controls.frequencies[b][f][c] >= self.sample_rate
        THEN amps[b][f][c] = 0
        ELSE amps[b][f][c] = ScaledAmplitude(given[b][f][c])

C8_HarmonicsAboveNyquistAreZero ==
  (ControlsReturned /\ self.cls = "Harmonic" /\ self.normalize_below_nyquist) =>
    \A b \in DOMAIN controls.harmonic_distribution :
      \A f \in DOMAIN controls.harmonic_distribution[b] :
        \A k \in DOMAIN controls.harmonic_distribution[b][f] :
          2 * k * controls.f0_hz[b][f][1] >= self.sample_rate
            => IsZero(controls.harmonic_distribution[b][f][k])

AllFinite(t) ==
  \A b \in DOMAIN t : \A f \in DOMAIN t[b] : \A k \in DOMAIN t[b][f] :
    IsFinite(t[b][f][k])

\* C9: the distribution that Harmonic.get_controls and
\* SinusoidalToHarmonicEncoder.call normalize is finite everywhere, also where
\* its sum is 0.
C9_NormalizedDistributionIsFinite ==
  /\ (ControlsReturned /\ self.cls = "Harmonic")
       => AllFinite(controls.harmonic_distribution)
  /\ (self.cls = "SinusoidalToHarmonicEncoder" /\ last = "call" /\ err = None)
       => AllFinite(controls.harm_dist)

\* C10: TensorToAudio.get_controls hands the samples on unchanged, and
\* get_signal on samples [B, T, 1] returns the [B, T] tensor of their only
\* channel, and raises when the third axis has another size.
C10_TensorToAudioDropsChannelAxis ==
  self.cls = "TensorToAudio" =>
    /\ last = "get_controls" =>
         err = None /\ controls = [samples |-> raw.samples]
    /\ last = "get_signal" =>
         IF Shape(raw.samples)[3] = 1
         THEN /\ err = None
              /\ signal.shape = <<Len(raw.samples), Len(raw.samples[1])>>
              /\ DOMAIN signal.data = DOMAIN raw.samples
              /\ \A b \in DOMAIN raw.samples :
                   /\ DOMAIN signal.data[b] = DOMAIN raw.samples[b]
                   /\ \A t \in DOMAIN raw.samples[b] :
                        signal.data[b][t] = raw.samples[b][t][1]
         ELSE err # None /\ signal = NoSignal

C10_Witness ==
  /\ self.cls = "TensorToAudio"
  /\ last = "get_signal"
  /\ err = None
  /\ signal.shape = <<1, 2>>
  /\ signal.data[1][1] # signal.data[1][2]

-----------------------------------------------------------------------------
(* ModalFIR.get_signal: the impulse response. *)

ModalFIRReturned == SignalReturned /\ self.cls = "ModalFIR"

\* The envelope gain * exp(-damping * t) at t = (n - 1) / sample_rate, for the
\* sample axis counted from 1.
DecayEnvelopes(b) ==
  [n \in 1..self.n_samples |-> [k \in 1..Len(controls.gains[1][1]) |->
     [gain |-> BroadcastAt(controls.gains, b, n, k),
      damping |-> BroadcastAt(controls.dampings, b, n, k),
      t |-> [num |-> n - 1, den |-> self.sample_rate]]]]

\* The frequency of every partial held at its value in the first frame.
HeldFrequencies(b) ==
  [n \in 1..self.n_samples |-> [k \in 1..Len(controls.gains[1][1]) |->
     controls.frequencies[b][1][k]]]

\* The frequency of every partial as the controls give it, frame by frame when
\* they have n_samples frames.
GivenFrequencies(b) ==
  [n \in 1..self.n_samples |-> [k \in 1..Len(controls.gains[1][1]) |->
     controls.frequencies[b][IF Len(controls.frequencies[b]) = 1 THEN 1 ELSE n][k]]]

\* The first half of the audio is zero, the second half is the oscillator bank
\* on the decay envelopes and on frequency envelopes `freqs`.
ZeroThenOscillatorBank(b, freqs) ==
  /\ Len(signal.data[b]) = 2 * self.n_samples
  /\ \A n \in 1..self.n_samples :
       /\ signal.data[b][n] = ZeroSample
       /\ signal.data[b][self.n_samples + n] =
            oscillator_bank_sample(freqs, DecayEnvelopes(b), self.sample_rate, n)

-----------------------------------------------------------------------------
(* Impact.get_signal: one impulse per window. *)

ImpactReturned == SignalReturned /\ self.cls = "Impact"

SetMax(S) == CHOOSE v \in S : \A u \in S : u <= v
SetMin(S) == CHOOSE v \in S : \A u \in S : v <= u

\* The magnitude envelope of batch entry b, sample by sample.
MagnitudeEnvelope(b) ==
  [n \in 1..self.n_samples |-> resample(controls.magnitudes, self.n_samples)[b][n][1]]

WindowSize == self.sample_rate \div self.max_impact_frequency

WindowCount == CeilDiv(self.n_samples, WindowSize)

\* The sample indices (from 0) of window j (from 1) of a grid of windows of
\* size WindowSize that starts `shift` samples before sample 0.
Window(j, shift) ==
  {x \in 0..(self.n_samples - 1) :
     (j - 1) * WindowSize - shift <= x /\ x < j * WindowSize - shift}

\* The samples that the pooling pads before sample 0.
WindowShift == (WindowCount * WindowSize - self.n_samples) \div 2

\* Every sample of the audio sums one impulse per window of the grid: its
\* height is the maximum of the envelope in the window, its peak the first
\* sample of the window that attains it.
OneImpulsePerWindow(shift) ==
  \A b \in DOMAIN signal.data : \A n \in DOMAIN signal.data[b] :
    /\ Len(signal.data[b][n]) = WindowCount
    /\ \A j \in 1..WindowCount :
         LET w == Window(j, shift)
             env == MagnitudeEnvelope(b)
             top == SetMax({env[x + 1] : x \in w})
         IN  /\ w # {}
             /\ signal.data[b][n][j].height = top
             /\ signal.data[b][n][j].peak_time =
                  [num |-> SetMin({x \in w : env[x + 1] = top}),
                   den |-> self.sample_rate]

\* C12 as claimed: the windows of Impact.get_signal are consecutive from
\* sample 0, only the last one possibly shorter, and each yields one impulse
\* at its first maximum.
C12_WindowsFromFirstSample == ImpactReturned => OneImpulsePerWindow(0)

\* C12: the windows of Impact.get_signal are consecutive on a grid that the
\* 'SAME' padding centres on the samples, so that the first and the last one
\* are possibly shorter, and each yields one impulse at its first maximum.
C12_WindowsOfCentredGrid == ImpactReturned => OneImpulsePerWindow(WindowShift)

C12_Witness ==
  /\ ImpactReturned
  /\ WindowSize = 3
  /\ self.n_samples = 4
  /\ WindowShift = 1
  /\ Len(controls.magnitudes[1]) = 4
  /\ controls.magnitudes[1][1][1] = controls.magnitudes[1][2][1]
  /\ controls.magnitudes[1][4][1] > controls.magnitudes[1][1][1]
  /\ signal.data[1][1][1].peak_time.num = 0
  /\ signal.data[1][1][2].peak_time.num = 3

-----------------------------------------------------------------------------
(* Impact.hertz_gaussian: where a pulse has its maximum. *)

\* The sample period in ticks.
SamplePeriod == 10000000 \div self.sample_rate

\* Twice the argument t - peak_time - tau / 2 of the pulse of window j at
\* sample n (from 1), in ticks.
PulseOffset(b, n, j) ==
  LET term == signal.data[b][n][j]
  IN  2 * (term.t.num - term.peak_time.num) * SamplePeriod - term.tau

\* The pulse exp(-6 * (offset / tau)^2) of window j is at sample n1 at least
\* what it is at sample n2: |offset| / tau is at most as large.
PulseAtLeast(b, j, n1, n2) ==
  Abs(PulseOffset(b, n1, j)) * signal.data[b][n2][j].tau
    <= Abs(PulseOffset(b, n2, j)) * signal.data[b][n1][j].tau

\* The sample (from 1) at the peak time of window j.
PeakSample(b, j) == signal.data[b][1][j].peak_time.num + 1

\* C13: every pulse of Impact.get_signal is maximal at the sample of its peak
\* time and symmetric about it.
C13_PulseCentredAtPeakTime ==
  ImpactReturned =>
    \A b \in DOMAIN signal.data : \A j \in DOMAIN signal.data[b][1] :
      \A n \in DOMAIN signal.data[b] :
        /\ PulseAtLeast(b, j, PeakSample(b, j), n)
        /\ LET m == 2 * PeakSample(b, j) - n
           IN  m \in DOMAIN signal.data[b] =>
                 PulseAtLeast(b, j, m, n) /\ PulseAtLeast(b, j, n, m)

-----------------------------------------------------------------------------
(* The attributes that the MFCC encoders store. *)

\* C18: an MFCC encoder constructed with a supported mfcc_time_steps m stores
\* the fft_size and overlap of the table entry for m, and stores the
\* z_time_steps argument (when it is truthy) as z_time_steps.
C18_StoredAttributesFollowArguments ==
  (/\ last = "__init__"
   /\ ctor.cls \in {"MfccTimeDistributedRnnEncoder", "TemporalCnnEncoder"}
   /\ ctor.mfcc_time_steps \in {63, 125, 250, 500, 1000})
  => /\ self # NoObject
     /\ self.fft_size = z_audio_spec[ctor.mfcc_time_steps].fft_size
     /\ self.overlap = z_audio_spec[ctor.mfcc_time_steps].overlap
     /\ ctor.z_time_steps # 0 =>
          /\ "z_time_steps" \in DOMAIN self
          /\ self.z_time_steps = ctor.z_time_steps

-----------------------------------------------------------------------------
(* ModalFIR.get_controls and the scale functions that are None. *)

\* C20: ModalFIR.get_controls returns gains, frequencies and dampings for every
\* combination of scale functions; a function that is None leaves its
\* controls as given, and with both None all three are returned as given.
C20_ModalFIRControlsForEveryScaleFns ==
  (self.cls = "ModalFIR" /\ last = "get_controls") =>
    /\ err = None
    /\ DOMAIN controls = {"gains", "frequencies", "dampings"}
    /\ self.amp_scale_fn = None =>
         controls.dampings = raw.dampings
         /\ (self.freq_scale_fn = None => controls.gains = raw.gains)
    /\ self.freq_scale_fn = None => controls.frequencies = raw.frequencies

-----------------------------------------------------------------------------
(* Decoder.call *)

\* Decoder.call has been invoked, on Decoder or on a class that inherits it.
DecoderCalled == self.cls \in {"Decoder", "RnnFcDecoder", "FcDecoder"} /\ last = "call"

\* The keys named in the output_splits of decoder d.
SplitKeys(d) == {d.output_splits[i][1] : i \in DOMAIN d.output_splits}

\* The i-th slice of tensor x along the last axis, for the sizes of
\* output_splits.
Slice(x, output_splits, i) ==
  [shape |-> <<x.shape[1], x.shape[2], output_splits[i][2]>>,
   data |-> Apply("split", <<x.data, SumSizes(output_splits, i - 1),
                             output_splits[i][2]>>)]

\* C14: Decoder.call returns the input dict extended by, and overwritten with,
\* the slices of the decode output under the keys of output_splits; when
\* decode raises, the dict of the caller is as it was given.
C14_DecoderCallUpdatesConditioning ==
  DecoderCalled =>
    IF err = None
    THEN /\ DOMAIN controls = DOMAIN raw \cup SplitKeys(self)
         /\ \A k \in DOMAIN raw \ SplitKeys(self) : controls[k] = raw[k]
         /\ \A i \in DOMAIN self.output_splits :
              controls[self.output_splits[i][1]] =
                Slice(decode(self, raw).value, self.output_splits, i)
    ELSE conditioning = raw /\ controls = NoControls

C14_Witness ==
  /\ DecoderCalled
  /\ self.cls = "RnnFcDecoder"
  /\ err = None
  /\ {"amps", "ld_scaled"} \subseteq DOMAIN raw
  /\ controls.amps # raw.amps
  /\ controls.ld_scaled = raw.ld_scaled
  /\ "harmonic_distribution" \in DOMAIN controls \ DOMAIN raw

-----------------------------------------------------------------------------
(* MultiDecoder.call *)

MultiDecoderReturned == self.cls = "MultiDecoder" /\ last = "call" /\ err = None

\* The dict that decoder d leaves when it is handed dict cond.
After(d, cond) ==
  [k \in DOMAIN cond \cup SplitKeys(d) |->
     IF k \in SplitKeys(d)
     THEN LET i == CHOOSE i \in DOMAIN d.output_splits : d.output_splits[i][1] = k
          IN  Slice(decode(d, cond).value, d.output_splits, i)
     ELSE cond[k]]

\* C15: MultiDecoder.call hands the first decoder the input dict and every
\* later decoder the dict that the decoder before it left, splits every
\* output with the output_splits of its decoder, and returns the dict that the
\* last decoder left: of two decoders that write one key the later one wins.
C15_MultiDecoderAppliesInOrder ==
  MultiDecoderReturned =>
    LET n == Len(self.decoder_list)
    IN  /\ Len(seen) = n
        /\ seen[1] = raw
        /\ \A i \in 2..n : seen[i] = After(self.decoder_list[i - 1], seen[i - 1])
        /\ controls = After(self.decoder_list[n], seen[n])

C15_Witness ==
  /\ MultiDecoderReturned
  /\ Len(self.decoder_list) = 2
  /\ self.decoder_list[1].output_splits = DefaultSplits
  /\ self.decoder_list[2].output_splits = NoiseSplits
  /\ "amps" \notin DOMAIN raw
  /\ "amps" \in DOMAIN seen[2]
  /\ controls.amps # seen[2].amps
  /\ controls.harmonic_distribution = seen[2].harmonic_distribution

-----------------------------------------------------------------------------
(* FcDecoder with its default arguments. *)

\* C19: an FcDecoder built with the default input_keys looks up only
\* 'object_embedding': its call returns on every dict that has this key, and
\* the network has read this one entry.
C19_DefaultFcDecoderReadsObjectEmbedding ==
  (/\ self.cls = "FcDecoder"
   /\ self.input_keys = FcDecoder_default_input_keys
   /\ last = "call"
   /\ "object_embedding" \in DOMAIN raw)
  => /\ err = None
     /\ decode(self, raw).value.data.args = <<raw.object_embedding>>


-----------------------------------------------------------------------------
(* C16, C17: Encoder.call. *)

EncoderCalled ==
  /\ self.cls \in {"MfccTimeDistributedRnnEncoder", "TemporalCnnEncoder"}
  /\ last = "call"

EncoderReturned == EncoderCalled /\ err = None

\* The f0 keys of dict d that hold the value the dataset gave under them.
DatasetF0(d) ==
  {k \in {"f0_scaled", "f0_hz"} \cap DOMAIN d : d[k].data = Dataset(k, d[k].shape).data}

\* Dict d holds the output of the f0 encoder on the dict of the caller, and
\* midi_to_hz of 127 times it.
HoldsEncodedF0(d) ==
  /\ {"f0_scaled", "f0_hz"} \subseteq DOMAIN d
  /\ d.f0_scaled = ResnetF0Encoder_compute_f0(self.f0_encoder, raw).value
  /\ d.f0_hz = midi_to_hz_of_scaled(d.f0_scaled)
  /\ DatasetF0(d) = {}

\* C16: with an f0_encoder, the dict that compute_z is handed and the dict that
\* Encoder.call returns hold the f0 encoder's output under 'f0_scaled' and
\* midi_to_hz of 127 times it under 'f0_hz', never the values of the dataset;
\* without an f0_encoder both keys are as the caller gave them.
C16_F0EncoderOverwritesBeforeComputeZ ==
  /\ (EncoderCalled /\ self.f0_encoder # NoObject /\ Len(seen) > 0) =>
        HoldsEncodedF0(seen[1])
  /\ (EncoderReturned /\ self.f0_encoder # NoObject) =>
        (Len(seen) = 1 /\ HoldsEncodedF0(controls))
  /\ (EncoderReturned /\ self.f0_encoder = NoObject) =>
        /\ Len(seen) = 1
        /\ \A d \in {seen[1], controls} :
             /\ {"f0_scaled", "f0_hz"} \cap DOMAIN d = {"f0_scaled", "f0_hz"} \cap DOMAIN raw
             /\ \A k \in {"f0_scaled", "f0_hz"} \cap DOMAIN raw : d[k] = raw[k]

C16_Witness ==
  /\ EncoderReturned
  /\ self.f0_encoder # NoObject
  /\ DatasetF0(raw) = {"f0_scaled", "f0_hz"}
  /\ seen[1].f0_scaled # raw.f0_scaled

\* The channels that the other_encoders of the object add to z.
RECURSIVE ContextChannels(_, _)
ContextChannels(other_encoders, n) ==
  IF n = 0 THEN 0
  ELSE ContextChannels(other_encoders, n - 1) + other_encoders[n].vector_length

\* C17: the 'z' that Encoder.call returns has rank 3; its time dimension is that
\* of the returned 'f0_scaled' when there is one, else the z_time_steps of an
\* encoder that has the attribute; the other_encoders add their vector lengths
\* to the channel axis only.
C17_ZTimeStepsFollowF0ThenAttribute ==
  EncoderReturned =>
    /\ "z" \in DOMAIN controls
    /\ Len(controls.z.shape) = 3
    /\ controls.z.shape[1] = raw.audio.shape[1]
    /\ "f0_scaled" \in DOMAIN controls =>
          controls.z.shape[2] = controls.f0_scaled.shape[2]
    /\ ("f0_scaled" \notin DOMAIN controls /\ "z_time_steps" \in DOMAIN self) =>
          controls.z.shape[2] = self.z_time_steps
    /\ controls.z.shape[3] =
          z_dims + ContextChannels(self.other_encoders, Len(self.other_encoders))

\* z was resampled to the time steps of 'f0_scaled' although the encoder has
\* other z_time_steps, and an embedding was joined to it.
C17_Witness ==
  /\ EncoderReturned
  /\ "f0_scaled" \in DOMAIN controls
  /\ "z_time_steps" \in DOMAIN self
  /\ self.z_time_steps # controls.f0_scaled.shape[2]
  /\ seen[1].audio.shape[2] = 64000
  /\ controls.z.shape[2] = 3
  /\ Len(self.other_encoders) = 1
  /\ controls.z.shape[3] > z_dims

\* z was resampled to the z_time_steps of the encoder for want of 'f0_scaled'.
C17_WitnessAttribute ==
  /\ EncoderReturned
  /\ "f0_scaled" \notin DOMAIN controls
  /\ "z_time_steps" \in DOMAIN self
  /\ controls.z.shape[2] = self.z_time_steps
  /\ self.z_time_steps # mfcc_frames(raw.audio.shape[2], self.fft_size, self.overlap)

====
